---- MODULE Spec2Model ----
(***************************************************************************)
(* lysogeny-broth: a toroidal Grid of cells and a double-buffered Universe *)
(* that steps a cellular automaton (src/src/lib.rs, built with the feature *)
(* "dead-alive-only", the configuration its tests and examples use).       *)
(***************************************************************************)
EXTENDS Integers, Sequences, FiniteSets, TLC

VARIABLES
    grid,             \* Universe.grid, the live grid (pub)
    shadow,           \* Universe.shadow, the scratch grid
    automaton,        \* Universe.automaton, the name of the rule function
    pc,               \* "new" before construction, "idle" between calls,
                      \* "eval"/"copy" inside update(), "panic" once a call panicked
    loop_h,           \* h of the running for-loop of update()
    loop_v,           \* v of the running for-loop of update()
    panicked,         \* the call that panicked and its message
    overflow_checks,  \* build profile: TRUE panics on u8 overflow, FALSE wraps
    args,             \* the sizes Universe::new was called with
    grid0,            \* history: live grid when the running/last update() began
    shadow0,          \* history: shadow grid when it began (both follow a later
                      \* set_cellstate of the caller, which starts a new history)
    last,             \* history: name of the last call that returned
    evaluated,        \* history: coordinates evaluated by the first loop of the
                      \* running/last update(), in order; cleared by the caller's next call
    base,             \* history: live grid as construction or the caller's last
                      \* set_cellstate left it
    gen,              \* history: number of update() calls that returned since then,
                      \* counted up to MaxGen (MaxGen stands for "MaxGen or more")
    call              \* history: the recorded call of a Grid function and what it
                      \* returned; cleared by the caller's next set_cellstate

vars == <<grid, shadow, automaton, pc, loop_h, loop_v, panicked,
          overflow_checks, args, grid0, shadow0, last, evaluated, base, gen, call>>

(***************************************************************************)
(* Bounds of the model                                                     *)
(***************************************************************************)
\* a Universe that is stepped has at most this many cells
MaxCells == 4
\* largest "small" size and coordinate tried on the Grid API
MaxSize == 4
\* a Universe whose cells are evaluated in any order has at most this many cells
MaxOrderCells == 3
\* update() calls in a row that are counted one by one
MaxGen == 3

(***************************************************************************)
(* Program constants                                                       *)
(***************************************************************************)
\* number of values of a u8
U8 == 256
VERTICAL_MAX == 255
HORIZONTAL_MAX == 255

CellState == {"Dead", "Alive"}

\* A call either returns val (err = "") or panics with message err.
Ok(x) == [err |-> "", val |-> x]
Panic(m, x) == [err |-> m, val |-> x]

\* The value standing for "no grid" (before construction, or in a panic).
NoGrid == [horizontal_size |-> 0, vertical_size |-> 0,
           cells |-> [h \in {} |-> [v \in {} |-> "Dead"]]]

(***************************************************************************)
(* u8 arithmetic.  A result outside 0..255 panics when the build checks    *)
(* overflow (reported as -1 here) and wraps otherwise.                     *)
(***************************************************************************)
u8_add(a, b) ==
    IF a + b < U8 THEN a + b
    ELSE IF overflow_checks THEN -1 ELSE (a + b) % U8

u8_sub(a, b) ==
    IF a >= b THEN a - b
    ELSE IF overflow_checks THEN -1 ELSE (a - b + U8) % U8

\* a coordinate pair built from two u8 results
Coord(h, v) ==
    IF h < 0 \/ v < 0 THEN Panic("arithmetic overflow", <<0, 0>>)
    ELSE Ok(<<h, v>>)

(***************************************************************************)
(* Grid                                                                    *)
(***************************************************************************)
Grid_new_zero_accepted(h_size, v_size) ==
    IF h_size > HORIZONTAL_MAX THEN Panic("horizontal coordinate too large", NoGrid)
    ELSE IF v_size > VERTICAL_MAX THEN Panic("vertical coordinate too large", NoGrid)
    ELSE Ok([horizontal_size |-> h_size, vertical_size |-> v_size,
             cells |-> [h \in 0..(h_size - 1) |-> [v \in 0..(v_size - 1) |-> "Dead"]]])

Grid_new(h_size, v_size) ==
    IF h_size = 0 THEN Panic("horizontal coordinate too small", NoGrid)
    ELSE IF v_size = 0 THEN Panic("vertical coordinate too small", NoGrid)
    ELSE IF h_size > HORIZONTAL_MAX THEN Panic("horizontal coordinate too large", NoGrid)
    ELSE IF v_size > VERTICAL_MAX THEN Panic("vertical coordinate too large", NoGrid)
    ELSE Ok([horizontal_size |-> h_size, vertical_size |-> v_size,
             cells |-> [h \in 0..(h_size - 1) |-> [v \in 0..(v_size - 1) |-> "Dead"]]])

get_horizontal_size_of_other_axis(self) == self.vertical_size

get_horizontal_size(self) == self.horizontal_size

get_vertical_size(self) == self.vertical_size

\* cells is [[CellState; HORIZONTAL_MAX]; VERTICAL_MAX] indexed [h][v]; the
\* model keeps the part inside the configured size, the only part a call
\* that passes the two range checks can index.
get_cellstate(self, h, v) ==
    IF h >= self.horizontal_size THEN Panic("horizontal coordinate too large", "Dead")
    ELSE IF v >= self.vertical_size THEN Panic("vertical coordinate too large", "Dead")
    ELSE IF h >= VERTICAL_MAX \/ v >= HORIZONTAL_MAX THEN Panic("index out of bounds", "Dead")
    ELSE Ok(self.cells[h][v])

get_cellstate_hv_swapped(self, hv) == get_cellstate(self, hv[2], hv[1])

get_cellstate_hv(self, hv) == get_cellstate(self, hv[1], hv[2])

set_cellstate_whole_column(self, h, v, state) ==
    IF h >= self.horizontal_size THEN Panic("horizontal coordinate too large", self)
    ELSE IF v >= self.vertical_size THEN Panic("vertical coordinate too large", self)
    ELSE IF h >= VERTICAL_MAX \/ v >= HORIZONTAL_MAX THEN Panic("index out of bounds", self)
    ELSE Ok([self EXCEPT !.cells[h] = [w \in DOMAIN self.cells[h] |-> state]])

set_cellstate(self, h, v, state) ==
    IF h >= self.horizontal_size THEN Panic("horizontal coordinate too large", self)
    ELSE IF v >= self.vertical_size THEN Panic("vertical coordinate too large", self)
    ELSE IF h >= VERTICAL_MAX \/ v >= HORIZONTAL_MAX THEN Panic("index out of bounds", self)
    ELSE Ok([self EXCEPT !.cells[h][v] = state])

set_cellstate_hv(self, hv, state) == set_cellstate(self, hv[1], hv[2], state)

get_north_coordinate_no_wrap(self, h, v) ==
    IF h >= self.horizontal_size THEN Panic("horizontal coordinate too large", <<0, 0>>)
    ELSE IF v >= self.vertical_size THEN Panic("vertical coordinate too large", <<0, 0>>)
    ELSE Coord(h, u8_sub(v, 1))

get_north_coordinate(self, h, v) ==
    IF h >= self.horizontal_size THEN Panic("horizontal coordinate too large", <<0, 0>>)
    ELSE IF v >= self.vertical_size THEN Panic("vertical coordinate too large", <<0, 0>>)
    ELSE IF v = 0 THEN Coord(h, u8_sub(self.vertical_size, 1))
    ELSE Coord(h, u8_sub(v, 1))

get_north_coordinate_hv(self, hv) == get_north_coordinate(self, hv[1], hv[2])

get_east_coordinate_no_wrap(self, h, v) ==
    IF h >= self.horizontal_size THEN Panic("horizontal coordinate too large", <<0, 0>>)
    ELSE IF v >= self.vertical_size THEN Panic("vertical coordinate too large", <<0, 0>>)
    ELSE Coord(u8_add(h, 1), v)

get_east_coordinate(self, h, v) ==
    IF h >= self.horizontal_size THEN Panic("horizontal coordinate too large", <<0, 0>>)
    ELSE IF v >= self.vertical_size THEN Panic("vertical coordinate too large", <<0, 0>>)
    ELSE IF h = u8_sub(self.horizontal_size, 1) THEN Coord(0, v)
    ELSE Coord(u8_add(h, 1), v)

get_east_coordinate_hv(self, hv) == get_east_coordinate(self, hv[1], hv[2])

get_south_coordinate_unchecked_v(self, h, v) ==
    IF h >= self.horizontal_size THEN Panic("horizontal coordinate too large", <<0, 0>>)
    ELSE IF v = u8_sub(self.vertical_size, 1) THEN Coord(h, 0)
    ELSE Coord(h, u8_add(v, 1))

get_south_coordinate(self, h, v) ==
    IF h >= self.horizontal_size THEN Panic("horizontal coordinate too large", <<0, 0>>)
    ELSE IF v >= self.vertical_size THEN Panic("vertical coordinate too large", <<0, 0>>)
    ELSE IF v = u8_sub(self.vertical_size, 1) THEN Coord(h, 0)
    ELSE Coord(h, u8_add(v, 1))

get_south_coordinate_hv(self, hv) == get_south_coordinate(self, hv[1], hv[2])

get_west_coordinate_wraps_to_size(self, h, v) ==
    IF h >= self.horizontal_size THEN Panic("horizontal coordinate too large", <<0, 0>>)
    ELSE IF v >= self.vertical_size THEN Panic("vertical coordinate too large", <<0, 0>>)
    ELSE IF h = 0 THEN Coord(self.horizontal_size, v)
    ELSE Coord(u8_sub(h, 1), v)

get_west_coordinate(self, h, v) ==
    IF h >= self.horizontal_size THEN Panic("horizontal coordinate too large", <<0, 0>>)
    ELSE IF v >= self.vertical_size THEN Panic("vertical coordinate too large", <<0, 0>>)
    ELSE IF h = 0 THEN Coord(u8_sub(self.horizontal_size, 1), v)
    ELSE Coord(u8_sub(h, 1), v)

get_west_coordinate_hv(self, hv) == get_west_coordinate(self, hv[1], hv[2])

\* In the diagonal functions a panic of the inner call ends the outer call
\* with the same panic.
get_northeast_coordinate(self, h, v) ==
    LET first == get_east_coordinate(self, h, v)
    IN  IF first.err # "" THEN first ELSE get_north_coordinate_hv(self, first.val)

get_northeast_coordinate_hv(self, hv) ==
    LET first == get_east_coordinate(self, hv[1], hv[2])
    IN  IF first.err # "" THEN first ELSE get_north_coordinate_hv(self, first.val)

get_southeast_coordinate(self, h, v) ==
    LET first == get_east_coordinate(self, h, v)
    IN  IF first.err # "" THEN first ELSE get_south_coordinate_hv(self, first.val)

get_southeast_coordinate_hv(self, hv) ==
    LET first == get_east_coordinate(self, hv[1], hv[2])
    IN  IF first.err # "" THEN first ELSE get_south_coordinate_hv(self, first.val)

get_southwest_coordinate(self, h, v) ==
    LET first == get_west_coordinate(self, h, v)
    IN  IF first.err # "" THEN first ELSE get_south_coordinate_hv(self, first.val)

get_southwest_coordinate_hv(self, hv) ==
    LET first == get_west_coordinate(self, hv[1], hv[2])
    IN  IF first.err # "" THEN first ELSE get_south_coordinate_hv(self, first.val)

get_northwest_coordinate_no_vertical_wrap(self, h, v) ==
    LET w == get_west_coordinate(self, h, v)
    IN  IF w.err # "" THEN w
        ELSE IF v = 0 THEN Ok(<<w.val[1], 0>>) ELSE Ok(<<w.val[1], v - 1>>)

get_northwest_coordinate(self, h, v) ==
    LET first == get_west_coordinate(self, h, v)
    IN  IF first.err # "" THEN first ELSE get_north_coordinate_hv(self, first.val)

get_northwest_coordinate_hv(self, hv) ==
    LET first == get_west_coordinate(self, hv[1], hv[2])
    IN  IF first.err # "" THEN first ELSE get_north_coordinate_hv(self, first.val)

(***************************************************************************)
(* The rule functions of the tests and examples                            *)
(***************************************************************************)
identity(h, v, g) == get_cellstate(g, h, v)

inversion(h, v, g) ==
    LET c == get_cellstate(g, h, v)
    IN  IF c.err # "" THEN c
        ELSE IF c.val = "Alive" THEN Ok("Dead") ELSE Ok("Alive")

rule30_table(l, c, r) ==
    CASE l = "Alive" /\ c = "Alive" /\ r = "Alive" -> "Dead"
      [] l = "Alive" /\ c = "Alive" /\ r = "Dead"  -> "Dead"
      [] l = "Alive" /\ c = "Dead"  /\ r = "Alive" -> "Dead"
      [] l = "Alive" /\ c = "Dead"  /\ r = "Dead"  -> "Alive"
      [] l = "Dead"  /\ c = "Alive" /\ r = "Alive" -> "Alive"
      [] l = "Dead"  /\ c = "Alive" /\ r = "Dead"  -> "Alive"
      [] l = "Dead"  /\ c = "Dead"  /\ r = "Alive" -> "Alive"
      [] l = "Dead"  /\ c = "Dead"  /\ r = "Dead"  -> "Dead"

rule30(h, v, g) ==
    LET left == get_west_coordinate(g, h, v)
        right == get_east_coordinate(g, h, v)
    IN  IF left.err # "" THEN Panic(left.err, "Dead")
        ELSE IF right.err # "" THEN Panic(right.err, "Dead")
        ELSE LET l == get_cellstate_hv(g, left.val)
                 c == get_cellstate(g, h, v)
                 r == get_cellstate_hv(g, right.val)
             IN  IF l.err # "" THEN l
                 ELSE IF c.err # "" THEN c
                 ELSE IF r.err # "" THEN r
                 ELSE Ok(rule30_table(l.val, c.val, r.val))

Rules == {"identity", "inversion", "rule30"}

\* Other rules a caller can pass to Universe::new: functions written like
\* rule30, with the match table of another elementary automaton.  Bit
\* 4 * left + 2 * centre + right of the rule number (Alive = 1) is the new
\* state, so the table of number 30 is rule30_table.
Bit(state) == IF state = "Alive" THEN 1 ELSE 0

Pow2(n) == IF n = 0 THEN 1 ELSE IF n = 1 THEN 2 ELSE IF n = 2 THEN 4 ELSE IF n = 3 THEN 8
           ELSE IF n = 4 THEN 16 ELSE IF n = 5 THEN 32 ELSE IF n = 6 THEN 64 ELSE 128

elementary_table(number, l, c, r) ==
    IF (number \div Pow2(4 * Bit(l) + 2 * Bit(c) + Bit(r))) % 2 = 1 THEN "Alive" ELSE "Dead"

elementary(number, h, v, g) ==
    LET left == get_west_coordinate(g, h, v)
        right == get_east_coordinate(g, h, v)
    IN  IF left.err # "" THEN Panic(left.err, "Dead")
        ELSE IF right.err # "" THEN Panic(right.err, "Dead")
        ELSE LET l == get_cellstate_hv(g, left.val)
                 c == get_cellstate(g, h, v)
                 r == get_cellstate_hv(g, right.val)
             IN  IF l.err # "" THEN l
                 ELSE IF c.err # "" THEN c
                 ELSE IF r.err # "" THEN r
                 ELSE Ok(elementary_table(number, l.val, c.val, r.val))

CallerRules == {"rule90", "rule110", "rule254"}

RuleNumber(rule) ==
    CASE rule = "rule90" -> 90
      [] rule = "rule110" -> 110
      [] rule = "rule254" -> 254

\* (self.automaton)(h, v, &g)
Apply(rule, h, v, g) ==
    CASE rule = "identity"  -> identity(h, v, g)
      [] rule = "inversion" -> inversion(h, v, g)
      [] rule = "rule30"    -> rule30(h, v, g)
      [] rule \in CallerRules -> elementary(RuleNumber(rule), h, v, g)

(***************************************************************************)
(* Universe                                                                *)
(***************************************************************************)
NoUniverse == [grid |-> NoGrid, shadow |-> NoGrid, automaton |-> "identity"]

Universe_new(h_size, v_size, rules) ==
    LET g == Grid_new(h_size, v_size)
        s == Grid_new(h_size, v_size)
    IN  IF g.err # "" THEN Panic(g.err, NoUniverse)
        ELSE IF s.err # "" THEN Panic(s.err, NoUniverse)
        ELSE Ok([grid |-> g.val, shadow |-> s.val, automaton |-> rules])

\* The body of the first loop of update(): with an in-place write
EvalCell_in_place(g, s, rule, h, v) ==
    LET state == Apply(rule, h, v, g)
    IN  IF state.err # "" THEN [grid |-> g, shadow |-> s, err |-> state.err]
        ELSE LET w == set_cellstate(g, h, v, state.val)
                 x == set_cellstate(s, h, v, state.val)
             IN  IF x.err # "" THEN [grid |-> g, shadow |-> s, err |-> x.err]
                 ELSE [grid |-> w.val, shadow |-> x.val, err |-> w.err]

EvalCell_writes_alive_only(g, s, rule, h, v) ==
    LET state == Apply(rule, h, v, g)
    IN  IF state.err # "" THEN [grid |-> g, shadow |-> s, err |-> state.err]
        ELSE IF state.val = "Dead" THEN [grid |-> g, shadow |-> s, err |-> ""]
        ELSE LET w == set_cellstate(s, h, v, state.val)
             IN  [grid |-> g, shadow |-> w.val, err |-> w.err]

\* The body of the first loop of update():
\*   let state = (self.automaton)(h, v, &self.grid);
\*   self.shadow.set_cellstate(h, v, state);
EvalCell(g, s, rule, h, v) ==
    LET state == Apply(rule, h, v, g)
    IN  IF state.err # "" THEN [grid |-> g, shadow |-> s, err |-> state.err]
        ELSE LET w == set_cellstate(s, h, v, state.val)
             IN  [grid |-> g, shadow |-> w.val, err |-> w.err]

CopyCell_mirrored(g, s, h, v) ==
    LET state == get_cellstate(s, g.horizontal_size - 1 - h, v)
    IN  IF state.err # "" THEN [grid |-> g, shadow |-> s, err |-> state.err]
        ELSE LET w == set_cellstate(g, h, v, state.val)
             IN  [grid |-> w.val, shadow |-> s, err |-> w.err]

\* The body of the second loop of update():
\*   let state = self.shadow.get_cellstate(h, v);
\*   self.grid.set_cellstate(h, v, *state);
CopyCell(g, s, h, v) ==
    LET state == get_cellstate(s, h, v)
    IN  IF state.err # "" THEN [grid |-> g, shadow |-> s, err |-> state.err]
        ELSE LET w == set_cellstate(g, h, v, state.val)
             IN  [grid |-> w.val, shadow |-> s, err |-> w.err]

\* for h in 0..horizontal_size { for v in 0..vertical_size { ... } }:
\* the iteration after (h, v), or <<>> when both loops are finished
NextIteration(g, h, v) ==
    IF v + 1 < g.vertical_size THEN <<h, v + 1>>
    ELSE IF h + 1 < g.horizontal_size THEN <<h + 1, 0>>
    ELSE <<>>

\* update() run to its end as one function of the Universe
RECURSIVE EvalLoop(_, _, _, _, _)
EvalLoop(g, s, rule, h, v) ==
    LET r == EvalCell(g, s, rule, h, v)
        n == NextIteration(g, h, v)
    IN  IF r.err # "" \/ n = <<>> THEN r
        ELSE EvalLoop(r.grid, r.shadow, rule, n[1], n[2])

RECURSIVE CopyLoop(_, _, _, _)
CopyLoop(g, s, h, v) ==
    LET r == CopyCell(g, s, h, v)
        n == NextIteration(g, h, v)
    IN  IF r.err # "" \/ n = <<>> THEN r
        ELSE CopyLoop(r.grid, r.shadow, n[1], n[2])

update(g, s, rule) ==
    IF g.horizontal_size = 0 \/ g.vertical_size = 0
    THEN [grid |-> g, shadow |-> s, err |-> ""]
    ELSE LET e == EvalLoop(g, s, rule, 0, 0)
         IN  IF e.err # "" THEN e ELSE CopyLoop(e.grid, e.shadow, 0, 0)

(***************************************************************************)
(* State machine                                                           *)
(***************************************************************************)
NoPanic == [op |-> "", msg |-> ""]

NoCall == [op |-> "", h |-> 0, v |-> 0, state |-> "Dead", ret |-> Ok(<<0, 0>>)]

\* sizes a stepped Universe is constructed with (0 included: construction panics)
UniverseSizes == {sz \in (0..MaxCells) \X (0..MaxCells) : sz[1] * sz[2] <= MaxCells}

\* sizes the Grid API is exercised on: the small ones and the largest u8 value
SizeInputs == (0..MaxSize) \cup {HORIZONTAL_MAX}
GridSizes == SizeInputs \X SizeInputs

\* coordinates the Grid API is called with
CoordInputs == (0..MaxSize) \cup {HORIZONTAL_MAX - 1, HORIZONTAL_MAX}

AllCoords(g) == (0..(g.horizontal_size - 1)) \X (0..(g.vertical_size - 1))

InRange(g, h, v) == h < g.horizontal_size /\ v < g.vertical_size

Init ==
    /\ grid = NoGrid
    /\ shadow = NoGrid
    /\ automaton = "identity"
    /\ pc = "new"
    /\ loop_h = 0
    /\ loop_v = 0
    /\ panicked = NoPanic
    /\ overflow_checks \in BOOLEAN
    /\ args = <<0, 0>>
    /\ grid0 = NoGrid
    /\ shadow0 = NoGrid
    /\ last = ""
    /\ evaluated = <<>>
    /\ base = NoGrid
    /\ gen = 0
    /\ call = NoCall

\* a call panicked: the program stops with the Universe as it was
PanicIn(op, msg) ==
    /\ pc' = "panic"
    /\ panicked' = [op |-> op, msg |-> msg]

\* let mut u = Universe::new(h_size, v_size, rules);
New(h_size, v_size, rules) ==
    /\ pc = "new"
    /\ args' = <<h_size, v_size>>
    /\ LET u == Universe_new(h_size, v_size, rules)
       IN  IF u.err # ""
           THEN /\ PanicIn("Universe::new", u.err)
                /\ UNCHANGED <<grid, shadow, automaton, grid0, shadow0, last, base>>
           ELSE /\ grid' = u.val.grid
                /\ base' = u.val.grid
                /\ shadow' = u.val.shadow
                /\ automaton' = u.val.automaton
                /\ grid0' = u.val.grid
                /\ shadow0' = u.val.shadow
                /\ last' = "Universe::new"
                /\ pc' = "idle"
                /\ UNCHANGED panicked
    /\ UNCHANGED <<loop_h, loop_v, overflow_checks, evaluated, gen, call>>

Universe_new_small ==
    \E sz \in UniverseSizes, rules \in Rules : New(sz[1], sz[2], rules)

Universe_new_order ==
    \E sz \in UniverseSizes, rules \in Rules :
        sz[1] * sz[2] <= MaxOrderCells /\ New(sz[1], sz[2], rules)

Universe_new_any ==
    \E sz \in GridSizes : New(sz[1], sz[2], "identity")

Universe_new_rules ==
    \E sz \in UniverseSizes, rules \in Rules \cup CallerRules : New(sz[1], sz[2], rules)

Universe_new_cells ==
    \E sz \in UniverseSizes : New(sz[1], sz[2], "identity")

\* u.grid.set_cellstate(h, v, state), by the caller between two calls of update()
SetCell ==
    /\ pc = "idle"
    /\ \E h \in 0..grid.horizontal_size, v \in 0..grid.vertical_size, state \in CellState :
          LET r == set_cellstate(grid, h, v, state)
          IN  IF r.err # ""
              THEN /\ PanicIn("set_cellstate", r.err)
                   /\ UNCHANGED <<grid, grid0, shadow0, last, base, gen>>
              ELSE /\ grid' = r.val
                   /\ base' = r.val
                   /\ gen' = 0
                   /\ grid0' = r.val
                   /\ shadow0' = shadow
                   /\ last' = "set_cellstate"
                   /\ UNCHANGED <<pc, panicked>>
    /\ evaluated' = <<>>
    /\ call' = NoCall
    /\ UNCHANGED <<shadow, automaton, loop_h, loop_v, overflow_checks, args>>

\* u.grid = Grid::new(h_size, v_size): the field is pub and Grid::new is pub
ReplaceGrid ==
    /\ pc = "idle"
    /\ \E sz \in UniverseSizes :
          LET r == Grid_new(sz[1], sz[2])
          IN  IF r.err # ""
              THEN /\ PanicIn("Grid::new", r.err)
                   /\ UNCHANGED <<grid, grid0, shadow0, last, base, gen>>
              ELSE /\ grid' = r.val
                   /\ base' = r.val
                   /\ gen' = 0
                   /\ grid0' = r.val
                   /\ shadow0' = shadow
                   /\ last' = "Grid::new"
                   /\ UNCHANGED <<pc, panicked>>
    /\ UNCHANGED <<shadow, automaton, loop_h, loop_v, overflow_checks, args, evaluated, call>>

\* the loops of update() move to their next iteration, or to pc = done
Advance(done) ==
    LET n == NextIteration(grid, loop_h, loop_v)
    IN  IF n = <<>>
        THEN /\ pc' = done
             /\ loop_h' = 0
             /\ loop_v' = 0
        ELSE /\ pc' = pc
             /\ loop_h' = n[1]
             /\ loop_v' = n[2]

\* one more update() has returned
Returned(n) == IF n < MaxGen THEN n + 1 ELSE MaxGen

\* u.update() is entered
Update_begin ==
    /\ pc = "idle"
    /\ grid0' = grid
    /\ shadow0' = shadow
    /\ loop_h' = 0
    /\ loop_v' = 0
    /\ pc' = IF grid.horizontal_size = 0 \/ grid.vertical_size = 0 THEN "idle" ELSE "eval"
    /\ last' = IF grid.horizontal_size = 0 \/ grid.vertical_size = 0 THEN "update" ELSE last
    /\ gen' = IF grid.horizontal_size = 0 \/ grid.vertical_size = 0 THEN Returned(gen) ELSE gen
    /\ evaluated' = <<>>
    /\ UNCHANGED <<grid, shadow, automaton, panicked, overflow_checks, args, base, call>>

\* one iteration of the first loop of update()
Update_eval ==
    /\ pc = "eval"
    /\ LET r == EvalCell(grid, shadow, automaton, loop_h, loop_v)
       IN  IF r.err # ""
           THEN /\ PanicIn("update", r.err)
                /\ UNCHANGED <<grid, shadow, loop_h, loop_v, evaluated>>
           ELSE /\ grid' = r.grid
                /\ shadow' = r.shadow
                /\ evaluated' = Append(evaluated, <<loop_h, loop_v>>)
                /\ Advance("copy")
                /\ UNCHANGED panicked
    /\ UNCHANGED <<automaton, overflow_checks, args, grid0, shadow0, last, base, gen, call>>

\* one iteration of the second loop of update(); after the last, update() returns
Update_copy ==
    /\ pc = "copy"
    /\ LET r == CopyCell(grid, shadow, loop_h, loop_v)
       IN  IF r.err # ""
           THEN /\ PanicIn("update", r.err)
                /\ UNCHANGED <<grid, shadow, loop_h, loop_v, last, gen>>
           ELSE /\ grid' = r.grid
                /\ shadow' = r.shadow
                /\ Advance("idle")
                /\ last' = IF NextIteration(grid, loop_h, loop_v) = <<>> THEN "update" ELSE last
                /\ gen' = IF NextIteration(grid, loop_h, loop_v) = <<>> THEN Returned(gen) ELSE gen
                /\ UNCHANGED panicked
    /\ UNCHANGED <<automaton, overflow_checks, args, grid0, shadow0, evaluated, base, call>>

Next ==
    \/ Universe_new_small
    \/ SetCell
    \/ Update_begin
    \/ Update_eval
    \/ Update_copy

Spec == Init /\ [][Next]_vars

\* the same program with the caller also assigning the pub field grid
NextPub ==
    \/ Universe_new_small
    \/ SetCell
    \/ ReplaceGrid
    \/ Update_begin
    \/ Update_eval
    \/ Update_copy

SpecPub == Init /\ [][NextPub]_vars

\* the same program with more rules to construct the Universe with
NextRules ==
    \/ Universe_new_rules
    \/ SetCell
    \/ Update_begin
    \/ Update_eval
    \/ Update_copy

SpecRules == Init /\ [][NextRules]_vars

(***************************************************************************)
(* The first loop of update() with the coordinates taken in any order      *)
(***************************************************************************)
UpdateAny_begin ==
    /\ pc = "idle"
    /\ grid.horizontal_size > 0 /\ grid.vertical_size > 0
    /\ grid0' = grid
    /\ shadow0' = shadow
    /\ evaluated' = <<>>
    /\ pc' = "eval"
    /\ UNCHANGED <<grid, shadow, automaton, loop_h, loop_v, panicked, overflow_checks,
                   args, last, base, gen, call>>

\* the coordinates the first loop still has to evaluate
Todo == AllCoords(grid) \ {evaluated[i] : i \in 1..Len(evaluated)}

UpdateAny_eval ==
    /\ pc = "eval"
    /\ \E c \in Todo :
          LET r == EvalCell(grid, shadow, automaton, c[1], c[2])
          IN  IF r.err # ""
              THEN /\ PanicIn("update", r.err)
                   /\ UNCHANGED <<grid, shadow, evaluated>>
              ELSE /\ grid' = r.grid
                   /\ shadow' = r.shadow
                   /\ evaluated' = Append(evaluated, c)
                   /\ pc' = IF Todo = {c} THEN "copy" ELSE "eval"
                   /\ UNCHANGED panicked
    /\ UNCHANGED <<automaton, loop_h, loop_v, overflow_checks, args, grid0, shadow0,
                   last, base, gen, call>>

NextOrder ==
    \/ Universe_new_order
    \/ SetCell
    \/ UpdateAny_begin
    \/ UpdateAny_eval
    \/ Update_copy

SpecOrder == Init /\ [][NextOrder]_vars

(***************************************************************************)
(* The coordinate-taking functions of Grid, called on u.grid by the caller  *)
(***************************************************************************)
\* A behaviour records one call on the grid it has built: the functions that
\* take &self leave the grid as it is.
DoCall(op, h, v, ret) ==
    /\ pc = "idle"
    /\ call.op = ""
    /\ call' = [op |-> op, h |-> h, v |-> v, state |-> "Dead", ret |-> ret]
    /\ IF ret.err # ""
       THEN PanicIn(op, ret.err)
       ELSE UNCHANGED <<pc, panicked>>
    /\ UNCHANGED <<grid, shadow, automaton, loop_h, loop_v, overflow_checks, args,
                   grid0, shadow0, last, evaluated, base, gen>>

\* A recorded call of a function that takes &mut self: the grid is what the
\* call leaves behind, also when it panicked.
DoSet(op, h, v, state, ret) ==
    /\ pc = "idle"
    /\ call.op = ""
    /\ call' = [op |-> op, h |-> h, v |-> v, state |-> state, ret |-> ret]
    /\ grid' = ret.val
    /\ base' = ret.val
    /\ gen' = 0
    /\ IF ret.err # ""
       THEN PanicIn(op, ret.err)
       ELSE UNCHANGED <<pc, panicked>>
    /\ UNCHANGED <<shadow, automaton, loop_h, loop_v, overflow_checks, args,
                   grid0, shadow0, last, evaluated>>

Call_get_cellstate ==
    \E h \in CoordInputs, v \in CoordInputs :
        DoCall("get_cellstate", h, v, get_cellstate(grid, h, v))

Call_get_cellstate_hv ==
    \E hv \in CoordInputs \X CoordInputs :
        DoCall("get_cellstate_hv", hv[1], hv[2], get_cellstate_hv(grid, hv))

Call_set_cellstate ==
    \E h \in CoordInputs, v \in CoordInputs, state \in CellState :
        DoSet("set_cellstate", h, v, state, set_cellstate(grid, h, v, state))

Call_set_cellstate_hv ==
    \E hv \in CoordInputs \X CoordInputs, state \in CellState :
        DoSet("set_cellstate_hv", hv[1], hv[2], state, set_cellstate_hv(grid, hv, state))

Call_get_north_coordinate ==
    \E h \in CoordInputs, v \in CoordInputs :
        DoCall("get_north_coordinate", h, v, get_north_coordinate(grid, h, v))

Call_get_north_coordinate_hv ==
    \E hv \in CoordInputs \X CoordInputs :
        DoCall("get_north_coordinate_hv", hv[1], hv[2], get_north_coordinate_hv(grid, hv))

Call_get_east_coordinate ==
    \E h \in CoordInputs, v \in CoordInputs :
        DoCall("get_east_coordinate", h, v, get_east_coordinate(grid, h, v))

Call_get_east_coordinate_hv ==
    \E hv \in CoordInputs \X CoordInputs :
        DoCall("get_east_coordinate_hv", hv[1], hv[2], get_east_coordinate_hv(grid, hv))

Call_get_south_coordinate ==
    \E h \in CoordInputs, v \in CoordInputs :
        DoCall("get_south_coordinate", h, v, get_south_coordinate(grid, h, v))

Call_get_south_coordinate_hv ==
    \E hv \in CoordInputs \X CoordInputs :
        DoCall("get_south_coordinate_hv", hv[1], hv[2], get_south_coordinate_hv(grid, hv))

Call_get_west_coordinate ==
    \E h \in CoordInputs, v \in CoordInputs :
        DoCall("get_west_coordinate", h, v, get_west_coordinate(grid, h, v))

Call_get_west_coordinate_hv ==
    \E hv \in CoordInputs \X CoordInputs :
        DoCall("get_west_coordinate_hv", hv[1], hv[2], get_west_coordinate_hv(grid, hv))

Call_get_northeast_coordinate ==
    \E h \in CoordInputs, v \in CoordInputs :
        DoCall("get_northeast_coordinate", h, v, get_northeast_coordinate(grid, h, v))

Call_get_northeast_coordinate_hv ==
    \E hv \in CoordInputs \X CoordInputs :
        DoCall("get_northeast_coordinate_hv", hv[1], hv[2], get_northeast_coordinate_hv(grid, hv))

Call_get_southeast_coordinate ==
    \E h \in CoordInputs, v \in CoordInputs :
        DoCall("get_southeast_coordinate", h, v, get_southeast_coordinate(grid, h, v))

Call_get_southeast_coordinate_hv ==
    \E hv \in CoordInputs \X CoordInputs :
        DoCall("get_southeast_coordinate_hv", hv[1], hv[2], get_southeast_coordinate_hv(grid, hv))

Call_get_southwest_coordinate ==
    \E h \in CoordInputs, v \in CoordInputs :
        DoCall("get_southwest_coordinate", h, v, get_southwest_coordinate(grid, h, v))

Call_get_southwest_coordinate_hv ==
    \E hv \in CoordInputs \X CoordInputs :
        DoCall("get_southwest_coordinate_hv", hv[1], hv[2], get_southwest_coordinate_hv(grid, hv))

Call_get_northwest_coordinate ==
    \E h \in CoordInputs, v \in CoordInputs :
        DoCall("get_northwest_coordinate", h, v, get_northwest_coordinate(grid, h, v))

Call_get_northwest_coordinate_hv ==
    \E hv \in CoordInputs \X CoordInputs :
        DoCall("get_northwest_coordinate_hv", hv[1], hv[2], get_northwest_coordinate_hv(grid, hv))

NextGrid ==
    \/ Universe_new_any
    \/ Call_get_cellstate
    \/ Call_get_cellstate_hv
    \/ Call_set_cellstate
    \/ Call_set_cellstate_hv
    \/ Call_get_north_coordinate
    \/ Call_get_north_coordinate_hv
    \/ Call_get_east_coordinate
    \/ Call_get_east_coordinate_hv
    \/ Call_get_south_coordinate
    \/ Call_get_south_coordinate_hv
    \/ Call_get_west_coordinate
    \/ Call_get_west_coordinate_hv
    \/ Call_get_northeast_coordinate
    \/ Call_get_northeast_coordinate_hv
    \/ Call_get_southeast_coordinate
    \/ Call_get_southeast_coordinate_hv
    \/ Call_get_southwest_coordinate
    \/ Call_get_southwest_coordinate_hv
    \/ Call_get_northwest_coordinate
    \/ Call_get_northwest_coordinate_hv

SpecGrid == Init /\ [][NextGrid]_vars

\* the same calls on a small grid whose cells the caller has set before
NextCells ==
    \/ Universe_new_cells
    \/ SetCell
    \/ Call_get_cellstate
    \/ Call_get_cellstate_hv
    \/ Call_set_cellstate
    \/ Call_set_cellstate_hv
    \/ Call_get_north_coordinate
    \/ Call_get_north_coordinate_hv
    \/ Call_get_east_coordinate
    \/ Call_get_east_coordinate_hv
    \/ Call_get_south_coordinate
    \/ Call_get_south_coordinate_hv
    \/ Call_get_west_coordinate
    \/ Call_get_west_coordinate_hv
    \/ Call_get_northeast_coordinate
    \/ Call_get_northeast_coordinate_hv
    \/ Call_get_southeast_coordinate
    \/ Call_get_southeast_coordinate_hv
    \/ Call_get_southwest_coordinate
    \/ Call_get_southwest_coordinate_hv
    \/ Call_get_northwest_coordinate
    \/ Call_get_northwest_coordinate_hv

SpecCells == Init /\ [][NextCells]_vars

(***************************************************************************)
(* Properties of Universe::update                                          *)
(***************************************************************************)

\* C1: when update() has returned, every in-range coordinate (h, v) of the
\* live grid holds rule(h, v, G), G being the live grid as it was when the
\* call began (the caller's set_cellstate calls and the earlier updates made
\* G); the sizes are those of G.
C1_UpdateIsOneGeneration ==
    (pc = "idle" /\ last = "update") =>
        /\ grid.horizontal_size = grid0.horizontal_size
        /\ grid.vertical_size = grid0.vertical_size
        /\ \A c \in AllCoords(grid0) :
              LET r == Apply(automaton, c[1], c[2], grid0)
              IN  r.err = "" /\ get_cellstate(grid, c[1], c[2]) = r

\* a cell the caller set Alive is Dead after one update under inversion,
\* next to a cell that was Dead and is Alive
C1_Witness ==
    /\ pc = "idle" /\ last = "update" /\ automaton = "inversion"
    /\ grid.horizontal_size >= 2
    /\ grid0.cells[0][0] = "Alive" /\ grid.cells[0][0] = "Dead"
    /\ grid0.cells[1][0] = "Dead" /\ grid.cells[1][0] = "Alive"

\* C2: while the first loop of update() runs, that is at every rule
\* invocation of the call, the live grid is cell for cell the live grid of
\* the start of the call.
C2_LiveGridFrozenDuringEvaluation ==
    pc = "eval" => grid = grid0

\* the loop has already written a new state into the shadow grid, for a cell
\* whose live state is still the old one
C2_Witness ==
    /\ pc = "eval" /\ automaton = "inversion"
    /\ loop_h + loop_v > 0
    /\ shadow.cells[0][0] = "Dead" /\ grid.cells[0][0] = "Alive"

\* C3: evaluating the coordinates in any order gives, when the step is over,
\* the live grid that update() computes with its row by row order.
C3_OrderIndependent ==
    (pc = "idle" /\ last = "update") =>
        LET r == update(grid0, shadow0, automaton)
        IN  r.err = "" /\ grid = r.grid

\* a step of rule 30 that changed the grid and began with another cell than (0, 0)
C3_Witness ==
    /\ pc = "idle" /\ last = "update" /\ automaton = "rule30"
    /\ Len(evaluated) = 3 /\ evaluated[1] # <<0, 0>> /\ evaluated[3] = <<0, 0>>
    /\ grid # grid0

\* C4: in every state of a Universe, whatever the caller did with the pub
\* field grid, the live and the shadow grid have the same horizontal_size and
\* the same vertical_size.
C4_SameDimensions ==
    pc # "new" =>
        /\ grid.horizontal_size = shadow.horizontal_size
        /\ grid.vertical_size = shadow.vertical_size

\* C5: update() of a Universe built by Universe::new with valid sizes never
\* fails: each iteration of its two loops is at a coordinate inside the live
\* and inside the shadow grid, and no call of update() panics.
C5_UpdateNeverFails ==
    /\ panicked.op # "update"
    /\ pc \in {"eval", "copy"} =>
          InRange(grid, loop_h, loop_v) /\ InRange(shadow, loop_h, loop_v)

(***************************************************************************)
(* Properties of the neighbour functions                                   *)
(***************************************************************************)
North == {"get_north_coordinate", "get_north_coordinate_hv"}
East == {"get_east_coordinate", "get_east_coordinate_hv"}
South == {"get_south_coordinate", "get_south_coordinate_hv"}
West == {"get_west_coordinate", "get_west_coordinate_hv"}

\* the call was made with a coordinate inside the grid
CallInRange == call.op # "" /\ InRange(grid, call.h, call.v)

\* C6: for an in-range (h, v) the four cardinal functions return the toroidal
\* step by one: east ((h+1) mod hs, v), west ((h-1) mod hs, v),
\* south (h, (v+1) mod vs), north (h, (v-1) mod vs).
C6_CardinalStepsAreToroidal ==
    CallInRange =>
        LET hs == grid.horizontal_size
            vs == grid.vertical_size
        IN  /\ call.op \in East => call.ret = Ok(<<(call.h + 1) % hs, call.v>>)
            /\ call.op \in West => call.ret = Ok(<<(call.h - 1) % hs, call.v>>)
            /\ call.op \in South => call.ret = Ok(<<call.h, (call.v + 1) % vs>>)
            /\ call.op \in North => call.ret = Ok(<<call.h, (call.v - 1) % vs>>)

\* east of the last column of the widest grid is column 0
C6_Witness ==
    /\ CallInRange /\ call.op = "get_east_coordinate"
    /\ grid.horizontal_size = HORIZONTAL_MAX /\ call.h = HORIZONTAL_MAX - 1
    /\ call.ret = Ok(<<0, call.v>>)

\* C7: for an in-range (h, v), west(east(h, v)) = (h, v) and
\* north(south(h, v)) = (h, v).
C7_WestUndoesEastNorthUndoesSouth ==
    CallInRange =>
        /\ call.op \in East =>
              call.ret.err = "" /\ get_west_coordinate_hv(grid, call.ret.val) = Ok(<<call.h, call.v>>)
        /\ call.op \in South =>
              call.ret.err = "" /\ get_north_coordinate_hv(grid, call.ret.val) = Ok(<<call.h, call.v>>)

\* east wrapped from the last column of a grid wider than one column
C7_Witness ==
    /\ CallInRange /\ call.op = "get_east_coordinate"
    /\ grid.horizontal_size > 1 /\ call.h = grid.horizontal_size - 1
    /\ call.ret = Ok(<<0, call.v>>)
    /\ get_west_coordinate_hv(grid, call.ret.val) = Ok(<<call.h, call.v>>)

\* C8 as stated: for an in-range (h, v) exactly one of h = 0 and
\* east(h, v).h = h + 1 holds, and exactly one of v = 0 and
\* south(h, v).v = v + 1.
C8_ExactlyOneOfZeroOrStep ==
    CallInRange =>
        /\ call.op \in East => ((call.h = 0) # (call.ret.val[1] = call.h + 1))
        /\ call.op \in South => ((call.v = 0) # (call.ret.val[2] = call.v + 1))

\* C8 amended: for an in-range (h, v) exactly one of h = horizontal_size - 1
\* and east(h, v).h = h + 1 holds, and exactly one of v = vertical_size - 1
\* and south(h, v).v = v + 1.
C8_ExactlyOneOfLastOrStep ==
    CallInRange =>
        /\ call.op \in East =>
              /\ call.ret.err = ""
              /\ (call.h = grid.horizontal_size - 1) # (call.ret.val[1] = call.h + 1)
        /\ call.op \in South =>
              /\ call.ret.err = ""
              /\ (call.v = grid.vertical_size - 1) # (call.ret.val[2] = call.v + 1)

\* east of column 0 of a wider grid is column 1: h = 0 and the step by one both hold
C8_Witness ==
    /\ CallInRange /\ call.op = "get_east_coordinate"
    /\ call.h = 0 /\ grid.horizontal_size > 1
    /\ call.ret.val[1] = call.h + 1

\* C9: for an in-range (h, v) each diagonal neighbour is the vertical step
\* applied to the horizontal step, also where both axes wrap: on a 3x4 grid
\* northwest(0, 0) = (2, 3) and southeast(2, 0) = (0, 1).
C9_DiagonalsAreComposed ==
    CallInRange =>
        LET e == get_east_coordinate(grid, call.h, call.v)
            w == get_west_coordinate(grid, call.h, call.v)
            is3x4 == grid.horizontal_size = 3 /\ grid.vertical_size = 4
        IN  /\ call.op \in {"get_northeast_coordinate", "get_northeast_coordinate_hv"} =>
                  e.err = "" /\ call.ret = get_north_coordinate(grid, e.val[1], e.val[2])
            /\ call.op \in {"get_southeast_coordinate", "get_southeast_coordinate_hv"} =>
                  e.err = "" /\ call.ret = get_south_coordinate(grid, e.val[1], e.val[2])
            /\ call.op \in {"get_southwest_coordinate", "get_southwest_coordinate_hv"} =>
                  w.err = "" /\ call.ret = get_south_coordinate(grid, w.val[1], w.val[2])
            /\ call.op \in {"get_northwest_coordinate", "get_northwest_coordinate_hv"} =>
                  w.err = "" /\ call.ret = get_north_coordinate(grid, w.val[1], w.val[2])
            /\ (is3x4 /\ call.op = "get_northwest_coordinate" /\ call.h = 0 /\ call.v = 0) =>
                  call.ret = Ok(<<2, 3>>)
            /\ (is3x4 /\ call.op = "get_southeast_coordinate" /\ call.h = 2 /\ call.v = 0) =>
                  call.ret = Ok(<<0, 1>>)

\* northwest of the corner (0, 0) of a 3x4 grid, where both axes wrap
C9_Witness ==
    /\ CallInRange /\ call.op = "get_northwest_coordinate"
    /\ grid.horizontal_size = 3 /\ grid.vertical_size = 4
    /\ call.h = 0 /\ call.v = 0
    /\ call.ret = Ok(<<2, 3>>)

(***************************************************************************)
(* Properties of construction                                              *)
(***************************************************************************)

\* C10: Grid::new(h_size, v_size) panics exactly when h_size = 0 or
\* v_size = 0; Universe::new with the same sizes panics with the same message
\* and leaves no Universe, and for all other sizes up to the largest u8 it
\* builds a Universe of these sizes.
C10_ZeroSizeIsRejected ==
    pc # "new" =>
        LET g == Grid_new(args[1], args[2])
            failed == (pc = "panic" /\ panicked.op = "Universe::new")
        IN  /\ (g.err # "") <=> (args[1] = 0 \/ args[2] = 0)
            /\ failed <=> (args[1] = 0 \/ args[2] = 0)
            /\ failed => /\ panicked.msg = g.err
                         /\ grid = NoGrid /\ shadow = NoGrid
            /\ ~failed => /\ grid.horizontal_size = args[1] /\ grid.vertical_size = args[2]
                          /\ shadow.horizontal_size = args[1] /\ shadow.vertical_size = args[2]

\* Universe::new with a valid h_size and v_size = 0 has panicked
C10_Witness ==
    /\ pc = "panic" /\ panicked.op = "Universe::new"
    /\ args[1] > 0 /\ args[2] = 0
    /\ panicked.msg = "vertical coordinate too small"

(***************************************************************************)
(* Properties of the coordinate-taking functions of Grid                   *)
(***************************************************************************)

\* C11: a call of get_cellstate, set_cellstate or one of the eight neighbour
\* functions (either argument form) panics exactly when h >= horizontal_size
\* or v >= vertical_size; the panic is the "too large" one of the first axis
\* that is out of range, no value is returned for such a coordinate, and a
\* set_cellstate that panicked leaves the grid as it was.
C11_OutOfRangeFailsAndOnlyThen ==
    call.op # "" =>
        LET out_h == call.h >= get_horizontal_size(grid0)
            out_v == call.v >= get_vertical_size(grid0)
        IN  /\ (call.ret.err # "") <=> (out_h \/ out_v)
            /\ out_h => call.ret.err = "horizontal coordinate too large"
            /\ (~out_h /\ out_v) => call.ret.err = "vertical coordinate too large"
            /\ (out_h \/ out_v) =>
                  /\ pc = "panic"
                  /\ panicked = [op |-> call.op, msg |-> call.ret.err]
                  /\ grid = grid0

\* set_cellstate(255, v, Alive) on a grid that is 255 cells wide has panicked
C11_Witness ==
    /\ call.op = "set_cellstate" /\ call.state = "Alive"
    /\ call.h = HORIZONTAL_MAX /\ grid0.horizontal_size = HORIZONTAL_MAX
    /\ call.v < grid0.vertical_size
    /\ pc = "panic"

SetOps == {"set_cellstate", "set_cellstate_hv"}

\* C12: after set_cellstate(h, v, s) with (h, v) in range, get_cellstate(h, v)
\* returns s, every other in-range coordinate returns what it returned before
\* the call and the two sizes are what they were; a call of get_cellstate or
\* of a neighbour function leaves the live grid and the shadow grid as they
\* were.
C12_SetWritesOneCell ==
    /\ (call.op \in SetOps /\ InRange(grid0, call.h, call.v)) =>
          /\ call.ret.err = ""
          /\ get_cellstate(grid, call.h, call.v) = Ok(call.state)
          /\ \A c \in AllCoords(grid0) \ {<<call.h, call.v>>} :
                get_cellstate(grid, c[1], c[2]) = get_cellstate(grid0, c[1], c[2])
          /\ get_horizontal_size(grid) = get_horizontal_size(grid0)
          /\ get_vertical_size(grid) = get_vertical_size(grid0)
          /\ shadow = shadow0
    /\ (call.op # "" /\ call.op \notin SetOps) =>
          grid = grid0 /\ shadow = shadow0

\* an Alive cell was set Dead on a grid that has another Alive cell
C12_Witness ==
    /\ call.op = "set_cellstate" /\ call.state = "Dead"
    /\ InRange(grid0, call.h, call.v)
    /\ grid0.cells[call.h][call.v] = "Alive"
    /\ \E c \in AllCoords(grid) : grid.cells[c[1]][c[2]] = "Alive"

HvOps == {"get_cellstate_hv", "set_cellstate_hv",
          "get_north_coordinate_hv", "get_east_coordinate_hv",
          "get_south_coordinate_hv", "get_west_coordinate_hv",
          "get_northeast_coordinate_hv", "get_southeast_coordinate_hv",
          "get_southwest_coordinate_hv", "get_northwest_coordinate_hv"}

\* what the two-argument form of the recorded _hv call gives on the grid the
\* call was made on
TwoArgumentForm ==
    CASE call.op = "get_cellstate_hv" -> get_cellstate(grid0, call.h, call.v)
      [] call.op = "set_cellstate_hv" -> set_cellstate(grid0, call.h, call.v, call.state)
      [] call.op = "get_north_coordinate_hv" -> get_north_coordinate(grid0, call.h, call.v)
      [] call.op = "get_east_coordinate_hv" -> get_east_coordinate(grid0, call.h, call.v)
      [] call.op = "get_south_coordinate_hv" -> get_south_coordinate(grid0, call.h, call.v)
      [] call.op = "get_west_coordinate_hv" -> get_west_coordinate(grid0, call.h, call.v)
      [] call.op = "get_northeast_coordinate_hv" ->
            get_northeast_coordinate(grid0, call.h, call.v)
      [] call.op = "get_southeast_coordinate_hv" ->
            get_southeast_coordinate(grid0, call.h, call.v)
      [] call.op = "get_southwest_coordinate_hv" ->
            get_southwest_coordinate(grid0, call.h, call.v)
      [] call.op = "get_northwest_coordinate_hv" ->
            get_northwest_coordinate(grid0, call.h, call.v)

\* C14: a call of a paired-coordinate form (get_cellstate_hv,
\* set_cellstate_hv, the eight get_*_coordinate_hv) with the pair (h, v) has
\* the outcome of the two-argument form called with h and v on the same
\* grid: the same returned value and the same grid afterwards when (h, v) is
\* in range, the same panic when it is not.
C14_PairFormEqualsTwoArgumentForm ==
    call.op \in HvOps =>
        /\ call.ret = TwoArgumentForm
        /\ TwoArgumentForm.err # "" =>
              /\ pc = "panic"
              /\ panicked.msg = TwoArgumentForm.err
              /\ grid = grid0
        /\ TwoArgumentForm.err = "" => pc = "idle"
        /\ grid = IF call.op = "set_cellstate_hv" THEN TwoArgumentForm.val ELSE grid0

\* get_cellstate_hv((h, v)) returned Alive for a cell off the diagonal whose
\* mirror cell (v, h) is Dead or outside the grid
C14_Witness ==
    /\ call.op = "get_cellstate_hv" /\ call.ret = Ok("Alive")
    /\ call.h # call.v
    /\ get_cellstate(grid, call.v, call.h) # Ok("Alive")

NeighbourOps ==
    {"get_north_coordinate", "get_north_coordinate_hv",
     "get_east_coordinate", "get_east_coordinate_hv",
     "get_south_coordinate", "get_south_coordinate_hv",
     "get_west_coordinate", "get_west_coordinate_hv",
     "get_northeast_coordinate", "get_northeast_coordinate_hv",
     "get_southeast_coordinate", "get_southeast_coordinate_hv",
     "get_southwest_coordinate", "get_southwest_coordinate_hv",
     "get_northwest_coordinate", "get_northwest_coordinate_hv"}

\* the eight neighbour functions applied to a coordinate pair
Chained(g, hv) ==
    {get_north_coordinate_hv(g, hv), get_east_coordinate_hv(g, hv),
     get_south_coordinate_hv(g, hv), get_west_coordinate_hv(g, hv),
     get_northeast_coordinate_hv(g, hv), get_southeast_coordinate_hv(g, hv),
     get_southwest_coordinate_hv(g, hv), get_northwest_coordinate_hv(g, hv)}

\* C19: on a grid of any size from 1 to 255 per axis, each of the eight
\* neighbour functions called with an in-range (h, v) returns, in the build
\* that panics on u8 overflow as in the one that wraps, a pair (h2, v2) with
\* h2 < horizontal_size and v2 < vertical_size; get_cellstate accepts the
\* pair and so does each neighbour function, whose result is in range again;
\* along an axis of size 1 the neighbour has the coordinate of the cell.
C19_NeighboursStayInTheGrid ==
    (CallInRange /\ call.op \in NeighbourOps) =>
        /\ call.ret.err = ""
        /\ pc = "idle"
        /\ InRange(grid, call.ret.val[1], call.ret.val[2])
        /\ get_cellstate_hv(grid, call.ret.val).err = ""
        /\ \A r \in Chained(grid, call.ret.val) :
              r.err = "" /\ InRange(grid, r.val[1], r.val[2])
        /\ grid.horizontal_size = 1 => call.ret.val[1] = call.h
        /\ grid.vertical_size = 1 => call.ret.val[2] = call.v

\* in the build that panics on overflow, the north-east neighbour of the
\* last column of a grid 255 cells wide and 1 cell high: column 0 of the
\* same row
C19_Witness ==
    /\ call.op = "get_northeast_coordinate" /\ overflow_checks
    /\ grid.horizontal_size = HORIZONTAL_MAX /\ grid.vertical_size = 1
    /\ call.h = HORIZONTAL_MAX - 1 /\ call.v = 0
    /\ call.ret = Ok(<<0, 0>>)

(***************************************************************************)
(* Properties of the Universe over several calls                           *)
(***************************************************************************)

\* C13: Grid::new(h_size, v_size) with valid sizes gives a grid of exactly
\* these sizes whose in-range cells are all Dead; the live grid of a Universe
\* built with them is all Dead when Universe::new returns, and through every
\* sequence of set_cellstate and update() calls get_horizontal_size() and
\* get_vertical_size() keep returning h_size and v_size, never 0.
C13_NewGridIsDeadAndSizesStay ==
    last # "" =>
        LET g == Grid_new(args[1], args[2])
        IN  /\ g.err = ""
            /\ get_horizontal_size(g.val) = args[1] /\ get_vertical_size(g.val) = args[2]
            /\ \A c \in AllCoords(g.val) : get_cellstate(g.val, c[1], c[2]) = Ok("Dead")
            /\ get_horizontal_size(grid) = args[1] /\ get_vertical_size(grid) = args[2]
            /\ get_horizontal_size(grid) > 0 /\ get_vertical_size(grid) > 0
            /\ DOMAIN grid.cells = 0..(args[1] - 1)
            /\ \A h \in DOMAIN grid.cells : DOMAIN grid.cells[h] = 0..(args[2] - 1)
            /\ (pc = "idle" /\ last = "Universe::new") =>
                  \A c \in AllCoords(grid) : get_cellstate(grid, c[1], c[2]) = Ok("Dead")

\* a Universe that is not square, after a set_cellstate that made a cell
\* Alive and an update() that kept it
C13_Witness ==
    /\ pc = "idle" /\ last = "update"
    /\ args[1] # args[2]
    /\ \E c \in AllCoords(grid) : grid.cells[c[1]][c[2]] = "Alive"

\* C15: under the identity rule, whatever cells the caller has set, the live
\* grid after 1, 2, ... update() calls in a row is cell for cell the live
\* grid before the first of them.
C15_IdentityKeepsTheGrid ==
    (automaton = "identity" /\ pc = "idle" /\ gen >= 1) => grid = base

\* MaxGen or more updates under identity of a grid with an Alive and a Dead
\* cell, over a shadow grid that held other cells when the updates began
C15_Witness ==
    /\ automaton = "identity" /\ pc = "idle" /\ gen = MaxGen
    /\ \E c, d \in AllCoords(grid) :
          grid.cells[c[1]][c[2]] = "Alive" /\ grid.cells[d[1]][d[2]] = "Dead"

\* the cells of a grid of vertical size 1, west to east
Row(g) == [i \in 1..g.horizontal_size |-> g.cells[i - 1][0]]

\* C16: rule 30 on a 3x1 Universe whose caller has made the live grid
\* [Dead, Alive, Dead]: the live grid is [Alive, Alive, Alive] after the first
\* update(), [Dead, Dead, Dead] after the second, and [Dead, Dead, Dead]
\* after every later one.
C16_Rule30OnThreeCells ==
    ( /\ automaton = "rule30" /\ pc = "idle"
      /\ base.horizontal_size = 3 /\ base.vertical_size = 1
      /\ Row(base) = <<"Dead", "Alive", "Dead">> ) =>
        /\ gen = 0 => Row(grid) = <<"Dead", "Alive", "Dead">>
        /\ gen = 1 => Row(grid) = <<"Alive", "Alive", "Alive">>
        /\ gen >= 2 => Row(grid) = <<"Dead", "Dead", "Dead">>

\* the third or a later update() of that Universe has returned
C16_Witness ==
    /\ automaton = "rule30" /\ pc = "idle" /\ gen = MaxGen /\ MaxGen >= 3
    /\ base.horizontal_size = 3 /\ base.vertical_size = 1
    /\ Row(base) = <<"Dead", "Alive", "Dead">>
    /\ Row(grid) = <<"Dead", "Dead", "Dead">>

AllDead(g) == \A c \in AllCoords(g) : g.cells[c[1]][c[2]] = "Dead"

\* the rule gives Dead for a cell whose west, own and east states are Dead
DeadStaysDead(rule) == Apply(rule, 0, 0, Grid_new(1, 1).val) = Ok("Dead")

\* C17: with a rule that reads the west, own and east states and gives Dead
\* for (Dead, Dead, Dead), on a Universe of any size, a live grid that is all
\* Dead before the first of 1, 2, ... update() calls in a row is all Dead
\* after each of them.
C17_AllDeadIsAFixedPoint ==
    (pc = "idle" /\ AllDead(base) /\ DeadStaysDead(automaton)) => AllDead(grid)

\* one update() of rule 110 on a grid the caller made all Dead again, over a
\* shadow grid that still held an Alive cell of an earlier step
C17_Witness ==
    /\ automaton = "rule110" /\ pc = "idle" /\ gen = 1
    /\ AllDead(base) /\ AllDead(grid)
    /\ ~AllDead(shadow0)
    /\ grid.horizontal_size > 1 /\ grid.vertical_size > 1

\* the coordinates the first loop has evaluated the rule at and written the
\* shadow cell of, as a set
Evaluated == {evaluated[i] : i \in 1..Len(evaluated)}

NoRepeats(seq) == \A i, j \in 1..Len(seq) : i # j => seq[i] # seq[j]

\* C18: every update() call runs to its end, and in one call the rule is
\* evaluated once at each in-range coordinate and nowhere else, each shadow
\* cell being written once: no call of update() panics, the first loop never
\* comes to a coordinate twice or to one outside the grids, and when it is
\* over it has been at horizontal_size * vertical_size coordinates, all
\* those of the live grid and all those of the shadow grid.
C18_EachCoordinateEvaluatedOnce ==
    /\ panicked.op # "update"
    /\ (pc \in {"eval", "copy"} \/ (pc = "idle" /\ last = "update")) =>
          /\ NoRepeats(evaluated)
          /\ Evaluated \subseteq AllCoords(grid)
          /\ Evaluated \subseteq AllCoords(shadow)
    /\ pc = "eval" =>
          /\ InRange(grid, loop_h, loop_v)
          /\ <<loop_h, loop_v>> \notin Evaluated
    /\ (pc = "copy" \/ (pc = "idle" /\ last = "update")) =>
          /\ Evaluated = AllCoords(grid)
          /\ Evaluated = AllCoords(shadow)
          /\ Len(evaluated) = grid.horizontal_size * grid.vertical_size

====
